---- MODULE Spec2Model ----
(***************************************************************************)
(* Model of comfy_extras/nodes_post_processing.py: the six image           *)
(* post-processing nodes Blend, Blur, Quantize, Sharpen, Transpose and     *)
(* Rotate.  A node call takes the batch `image` and its parameters and     *)
(* either returns one tensor or raises.                                    *)
(*                                                                         *)
(* Tensors are records [shape, data]: shape is <<B, H, W, C>> and data     *)
(* maps 0-based index tuples <<b, y, x, c>> to exact rationals <<n, d>>.   *)
(* float32 rounding is not modelled: arithmetic is exact, except sqrt and  *)
(* exp, which are truncated to SqrtScale and ExpScale digits.              *)
(***************************************************************************)
EXTENDS Integers, Sequences, FiniteSets, TLC

VARIABLES image, call, ret, run

vars == <<image, call, ret, run>>

(***************************************************************************)
(* Bounds of the model.                                                    *)
(***************************************************************************)
MaxBatch == 2
MaxDim == 2
MaxRadius == 2
MaxChain == 4
SqrtScale == 1000
ExpScale == 10000

(***************************************************************************)
(* Exact rationals <<n, d>>, d > 0, in lowest terms.                       *)
(***************************************************************************)
RECURSIVE Gcd(_, _)
Gcd(a, b) == IF b = 0 THEN a ELSE Gcd(b, a % b)

Abs(n) == IF n < 0 THEN -n ELSE n

Rat(n, d) == LET g == Gcd(Abs(n), d) IN <<n \div g, d \div g>>

RInt(n) == <<n, 1>>

\* Sums over the least common denominator, products reduced crosswise, so
\* that intermediate values stay small.
RAdd(a, b) ==
    LET g == Gcd(a[2], b[2])
    IN Rat(a[1] * (b[2] \div g) + b[1] * (a[2] \div g), (a[2] \div g) * b[2])

RSub(a, b) == RAdd(a, <<-b[1], b[2]>>)

RMul(a, b) ==
    LET g1 == Gcd(Abs(a[1]), b[2])
        g2 == Gcd(Abs(b[1]), a[2])
    IN Rat((a[1] \div g1) * (b[1] \div g2), (a[2] \div g2) * (b[2] \div g1))

RLe(a, b) == a[1] * b[2] <= b[1] * a[2]

RLt(a, b) == a[1] * b[2] < b[1] * a[2]

\* Truncation toward zero, as a float -> integer cast does.
RTrunc(a) == IF a[1] >= 0 THEN a[1] \div a[2] ELSE -((-a[1]) \div a[2])

RFloor(a) == a[1] \div a[2]

InUnit(a) == RLe(RInt(0), a) /\ RLe(a, RInt(1))

(***************************************************************************)
(* Tensors.                                                                *)
(***************************************************************************)
Idx(s) == (0 .. s[1] - 1) \X (0 .. s[2] - 1) \X (0 .. s[3] - 1) \X (0 .. s[4] - 1)

Tensor(s, f(_)) == [shape |-> s, data |-> [i \in Idx(s) |-> f(i)]]

NoTensor == [shape |-> <<0, 0, 0, 0>>, data |-> [i \in {} |-> RInt(0)]]

\* torch.zeros_like
ZerosLike(t) == [shape |-> t.shape, data |-> [i \in Idx(t.shape) |-> RInt(0)]]

\* What a call gives back: a tensor, or the exception it raised.
Ok(t) == [ok |-> TRUE, value |-> t, err |-> "none"]

Raise(e) == [ok |-> FALSE, value |-> NoTensor, err |-> e]

NoRet == [ok |-> FALSE, value |-> NoTensor, err |-> "not called"]

AllInUnit(t) == \A i \in DOMAIN t.data : InUnit(t.data[i])

\* NumPy/torch broadcasting of a value of shape vs into a slot of shape ts
\* (same rank): every dimension is equal or 1 in the value.
Broadcastable(vs, ts) == \A k \in DOMAIN ts : vs[k] = ts[k] \/ vs[k] = 1

\* Two operands of an elementwise operation broadcast against each other.
BroadcastShapes(s1, s2) == \A k \in DOMAIN s1 : s1[k] = s2[k] \/ s1[k] = 1 \/ s2[k] = 1

Max(a, b) == IF a >= b THEN a ELSE b

BroadcastShape(s1, s2) == [k \in DOMAIN s1 |-> IF s1[k] = 0 \/ s2[k] = 0 THEN 0 ELSE Max(s1[k], s2[k])]

\* The element of t that position i of the broadcast result reads.
At(t, i) == t.data[[k \in DOMAIN i |-> IF t.shape[k] = 1 THEN 0 ELSE i[k]]]

(***************************************************************************)
(* 8-bit conversion, both ways.                                            *)
(***************************************************************************)
\* (tensor_image * 255).to(torch.uint8), for a component in [0, 1]
ToUint8(v) == RTrunc(RMul(v, RInt(255)))

\* torch.tensor(np.array(...)).float() / 255
FromUint8(k) == Rat(k, 255)

\* Image.fromarray(img, mode='RGB') of image[b]: a PIL image of size w x h
\* whose pixel <<x, y>> is an RGB triple of 8-bit levels.
FromArray(t, b) ==
    [w |-> t.shape[3], h |-> t.shape[2],
     px |-> [p \in (0 .. t.shape[3] - 1) \X (0 .. t.shape[2] - 1) |->
                [c \in 1 .. 3 |-> ToUint8(t.data[<<b, p[2], p[1], c - 1>>])]]]

\* The shape of np.array(pil_image.convert("RGB")): rows, columns, 3.
ArrayShape(im) == <<im.h, im.w, 3>>

\* result[b] = array / 255: raises unless the array broadcasts to the slot.
SetItem(result, b, im) ==
    LET slot == <<result.shape[2], result.shape[3], result.shape[4]>>
        vs == ArrayShape(im)
        rd(i) == im.px[<<IF vs[2] = 1 THEN 0 ELSE i[3], IF vs[1] = 1 THEN 0 ELSE i[2]>>]
                      [IF vs[3] = 1 THEN 1 ELSE i[4] + 1]
    IN IF Broadcastable(vs, slot)
       THEN Ok([result EXCEPT !.data =
                  [i \in DOMAIN result.data |->
                      IF i[1] = b THEN FromUint8(rd(i)) ELSE result.data[i]]])
       ELSE Raise("RuntimeError")

(***************************************************************************)
(* Transpose                                                               *)
(***************************************************************************)
\* The keys of the methods table (the degree sign of the source's keys is
\* left out).
TransposeMethods ==
    {"Flip horizontal", "Flip vertical", "Rotate 90", "Rotate 180",
     "Rotate 270", "Transpose", "Transverse"}

SwapsDims(m) == m \in {"Rotate 90", "Rotate 270", "Transpose", "Transverse"}

\* PIL Image.transpose: the source pixel of output pixel <<x, y>>.
TransposeSource(im, m, x, y) ==
    CASE m = "Flip horizontal" -> <<im.w - 1 - x, y>>
      [] m = "Flip vertical"   -> <<x, im.h - 1 - y>>
      [] m = "Rotate 90"       -> <<im.w - 1 - y, x>>
      [] m = "Rotate 180"      -> <<im.w - 1 - x, im.h - 1 - y>>
      [] m = "Rotate 270"      -> <<y, im.h - 1 - x>>
      [] m = "Transpose"       -> <<y, x>>
      [] m = "Transverse"      -> <<im.w - 1 - y, im.h - 1 - x>>

PilTranspose(im, m) ==
    LET ow == IF SwapsDims(m) THEN im.h ELSE im.w
        oh == IF SwapsDims(m) THEN im.w ELSE im.h
    IN [w |-> ow, h |-> oh,
        px |-> [p \in (0 .. ow - 1) \X (0 .. oh - 1) |->
                   im.px[TransposeSource(im, m, p[1], p[2])]]]

\* The loop of Transpose.transpose from image b on: methods[method] raises
\* KeyError, result[b] = ... raises RuntimeError on a shape mismatch.
RECURSIVE TransposeLoop(_, _, _, _)
TransposeLoop(img, method, b, result) ==
    IF b >= img.shape[1] THEN Ok(result)
    ELSE IF method \notin TransposeMethods THEN Raise("KeyError")
    ELSE LET r == SetItem(result, b, PilTranspose(FromArray(img, b), method))
         IN IF r.ok THEN TransposeLoop(img, method, b + 1, r.value) ELSE r

transpose(img, method) == TransposeLoop(img, method, 0, ZerosLike(img))

(***************************************************************************)
(* Blend                                                                   *)
(***************************************************************************)
BlendModes == {"normal", "multiply", "screen", "overlay", "soft_light"}

Half == Rat(1, 2)

Quarter == Rat(1, 4)

\* Integer square root, and sqrt truncated to 1/SqrtScale.
ISqrt(n) == CHOOSE r \in 0 .. n : r * r <= n /\ (r + 1) * (r + 1) > n

RSqrt(x) == Rat(ISqrt((x[1] * SqrtScale * SqrtScale) \div x[2]), SqrtScale)

\* Blend.g on one component
g(x) ==
    IF RLe(x, Quarter)
    THEN RMul(RAdd(RMul(RSub(RMul(RInt(16), x), RInt(12)), x), RInt(4)), x)
    ELSE RSqrt(x)

\* The formula of one mode on one pair of components.
BlendFormula(mode, a, b) ==
    CASE mode = "multiply" -> RMul(a, b)
      [] mode = "screen" -> RSub(RInt(1), RMul(RSub(RInt(1), a), RSub(RInt(1), b)))
      [] mode = "overlay" ->
            IF RLe(a, Half)
            THEN RMul(RInt(2), RMul(a, b))
            ELSE RSub(RInt(1), RMul(RInt(2), RMul(RSub(RInt(1), a), RSub(RInt(1), b))))
      [] mode = "soft_light" ->
            IF RLe(b, Half)
            THEN RSub(a, RMul(RMul(RSub(RInt(1), RMul(RInt(2), b)), a), RSub(RInt(1), a)))
            ELSE RAdd(a, RMul(RSub(RMul(RInt(2), b), RInt(1)), RSub(g(a), a)))

\* An elementwise operation of two tensors: torch broadcasts the operands
\* and raises RuntimeError when their shapes do not broadcast.
Elementwise(t1, t2, f(_, _)) ==
    IF BroadcastShapes(t1.shape, t2.shape)
    THEN Ok(Tensor(BroadcastShape(t1.shape, t2.shape), LAMBDA i : f(At(t1, i), At(t2, i))))
    ELSE Raise("RuntimeError")

\* Blend.blend_mode
blend_mode(img1, img2, mode) ==
    IF mode = "normal" THEN Ok(img2)
    ELSE IF mode \in BlendModes
         THEN Elementwise(img1, img2, LAMBDA a, b : BlendFormula(mode, a, b))
         ELSE Raise("ValueError")

\* torch.clamp(x, 0, 1) on one component
Clamp01(v) == IF RLt(v, RInt(0)) THEN RInt(0) ELSE IF RLt(RInt(1), v) THEN RInt(1) ELSE v

clamp(t) == [t EXCEPT !.data = [i \in DOMAIN t.data |-> Clamp01(t.data[i])]]

\* comfy.utils.common_upscale(samples, width, height, 'bicubic', 'center') with
\* the two permutes around it: the result has image2's batch size and channel
\* count and the requested height and width.  A resize to the same size
\* keeps the samples; otherwise each output component is the sample under it
\* in the centred crop plus the over- or undershoot `ring` of the bicubic
\* filter.
common_upscale(t, width, height, ring) ==
    LET oh == t.shape[2]
        ow == t.shape[3]
        \* centre crop to the target aspect ratio
        cw == IF ow * height > oh * width THEN Max(1, (oh * width) \div height) ELSE ow
        ch == IF ow * height < oh * width THEN Max(1, (ow * height) \div width) ELSE oh
        x0 == (ow - cw) \div 2
        y0 == (oh - ch) \div 2
        s == <<t.shape[1], height, width, t.shape[4]>>
    IN IF oh = height /\ ow = width THEN t
       ELSE Tensor(s, LAMBDA i :
              RAdd(t.data[<<i[1], y0 + (i[2] * ch) \div height,
                            x0 + (i[3] * cw) \div width, i[4]>>], ring))

\* image1 * (1 - blend_factor) + blended_image * blend_factor on one component
Mix_Swapped(a, m, blend_factor) ==
    RAdd(RMul(a, blend_factor), RMul(m, RSub(RInt(1), blend_factor)))

Mix(a, m, blend_factor) ==
    RAdd(RMul(a, RSub(RInt(1), blend_factor)), RMul(m, blend_factor))

\* Blend.blend_images
blend_images(image1, image2, blend_factor, mode, ring) ==
    LET resized == IF image1.shape # image2.shape
                   THEN common_upscale(image2, image1.shape[3], image1.shape[2], ring)
                   ELSE image2
        blended == blend_mode(image1, resized, mode)
        mixed == Elementwise(image1, blended.value,
                    LAMBDA a, m : Mix(a, m, blend_factor))
    IN IF ~blended.ok THEN blended
       ELSE IF ~mixed.ok THEN mixed
       ELSE Ok(clamp(mixed.value))

(***************************************************************************)
(* Blur and Sharpen                                                        *)
(***************************************************************************)
\* exp(-t) in units of 1/ExpScale, for t given in units of 1/ExpScale:
\* exp(-t) = exp(-t/2)^2 down to t <= 1/2, then four terms of the series.
RECURSIVE ExpNeg(_)
ExpNeg(tf) ==
    IF 2 * tf > ExpScale
    THEN LET h == ExpNeg(tf \div 2) IN (h * h) \div ExpScale
    ELSE LET t2 == (tf * tf) \div (2 * ExpScale)
             t3 == (t2 * tf) \div (3 * ExpScale)
             t4 == (t3 * tf) \div (4 * ExpScale)
         IN ExpScale - tf + t2 - t3 + t4

Cells(size) == (0 .. size - 1) \X (0 .. size - 1)

\* The sum of a sequence of rationals
RECURSIVE SumSeq(_)
SumSeq(s) ==
    IF Len(s) = 0 THEN RInt(0)
    ELSE IF Len(s) = 1 THEN s[1]
    ELSE LET h == Len(s) \div 2
         IN RAdd(SumSeq(SubSeq(s, 1, h)), SumSeq(SubSeq(s, h + 1, Len(s))))

\* The sum of f(0) .. f(n - 1)
SumTo(n, f(_)) == SumSeq([k \in 1 .. n |-> f(k - 1)])

KernelSum(k) == SumTo(k.size * k.size, LAMBDA n : k.w[<<n \div k.size, n % k.size>>])

\* torch.linspace(-1, 1, kernel_size)[i]
Linspace(kernel_size, i) == Rat(2 * i - (kernel_size - 1), kernel_size - 1)

\* Blur.gaussian_kernel: exp(-(x*x + y*y) / (2 sigma^2)) on the grid, divided
\* by its sum.  torch.linspace raises for a negative number of steps.
gaussian_kernel(kernel_size, sigma) ==
    IF kernel_size < 0 THEN [ok |-> FALSE, err |-> "RuntimeError"]
    ELSE LET d2(c) == RAdd(RMul(Linspace(kernel_size, c[1]), Linspace(kernel_size, c[1])),
                           RMul(Linspace(kernel_size, c[2]), Linspace(kernel_size, c[2])))
             s2 == RMul(RInt(2), RMul(sigma, sigma))
             t(c) == Rat(d2(c)[1] * s2[2], d2(c)[2] * s2[1])
             e == [c \in Cells(kernel_size) |-> ExpNeg(RFloor(RMul(t(c), RInt(ExpScale))))]
             total == SumTo(kernel_size * kernel_size,
                            LAMBDA n : RInt(e[<<n \div kernel_size, n % kernel_size>>]))
         IN [ok |-> TRUE, err |-> "none", size |-> kernel_size,
             w |-> [c \in Cells(kernel_size) |-> Rat(e[c], total[1])]]

\* F.conv2d(image, kernel, padding=padding, groups=channels) between the two
\* permutes: each channel is correlated with the kernel, zeros outside.
conv2d(t, k, padding) ==
    LET H == t.shape[2]
        W == t.shape[3]
        term(i, n) ==
            LET yy == n \div W
                xx == n % W
                ky == yy - i[2] + padding
                kx == xx - i[3] + padding
            IN IF ky \in 0 .. k.size - 1 /\ kx \in 0 .. k.size - 1
               THEN RMul(k.w[<<ky, kx>>], t.data[<<i[1], yy, xx, i[4]>>])
               ELSE RInt(0)
    IN Tensor(t.shape, LAMBDA i : SumTo(H * W, LAMBDA n : term(i, n)))

\* Blur.blur
blur(img, blur_radius, sigma) ==
    IF blur_radius = 0 THEN Ok(img)
    ELSE LET kernel_size == blur_radius * 2 + 1
             kernel == gaussian_kernel(kernel_size, sigma)
         IN IF ~kernel.ok THEN Raise(kernel.err)
            ELSE Ok(conv2d(img, kernel, kernel_size \div 2))

SharpenKernel_CentreUnsquared(sharpen_radius, alpha) ==
    LET kernel_size == sharpen_radius * 2 + 1
        center == kernel_size \div 2
        ones == [c \in Cells(kernel_size) |-> RInt(-1)]
        set == [ones EXCEPT ![<<center, center>>] = RInt(kernel_size)]
    IN IF kernel_size < 0 THEN [ok |-> FALSE, err |-> "RuntimeError"]
       ELSE [ok |-> TRUE, err |-> "none", size |-> kernel_size,
             w |-> [c \in Cells(kernel_size) |-> RMul(set[c], alpha)]]

\* The kernel of Sharpen.sharpen: ones * -1, the centre set to kernel_size^2,
\* all multiplied by alpha.  torch.ones raises for a negative size.
SharpenKernel(sharpen_radius, alpha) ==
    LET kernel_size == sharpen_radius * 2 + 1
        center == kernel_size \div 2
        ones == [c \in Cells(kernel_size) |-> RInt(-1)]
        set == [ones EXCEPT ![<<center, center>>] = RInt(kernel_size * kernel_size)]
    IN IF kernel_size < 0 THEN [ok |-> FALSE, err |-> "RuntimeError"]
       ELSE [ok |-> TRUE, err |-> "none", size |-> kernel_size,
             w |-> [c \in Cells(kernel_size) |-> RMul(set[c], alpha)]]

sharpen_NoClamp(img, sharpen_radius, alpha) ==
    IF sharpen_radius = 0 THEN Ok(img)
    ELSE LET kernel == SharpenKernel(sharpen_radius, alpha)
         IN IF ~kernel.ok THEN Raise(kernel.err)
            ELSE Ok(conv2d(img, kernel, kernel.size \div 2))

\* Sharpen.sharpen
sharpen(img, sharpen_radius, alpha) ==
    IF sharpen_radius = 0 THEN Ok(img)
    ELSE LET kernel == SharpenKernel(sharpen_radius, alpha)
         IN IF ~kernel.ok THEN Raise(kernel.err)
            ELSE Ok(clamp(conv2d(img, kernel, kernel.size \div 2)))

(***************************************************************************)
(* Quantize                                                                *)
(***************************************************************************)
ColorsOf(im) == {im.px[p] : p \in DOMAIN im.px}

MinOf(S) == CHOOSE m \in S : \A n \in S : m <= n

MaxOf(S) == CHOOSE m \in S : \A n \in S : m >= n

Range(D, c) == MaxOf({d[c] : d \in D}) - MinOf({d[c] : d \in D})

\* The channel with the largest range, the first of them on a tie.
WidestChannel(D) == CHOOSE c \in 1 .. 3 :
    /\ \A e \in 1 .. 3 : Range(D, c) >= Range(D, e)
    /\ \A e \in 1 .. c - 1 : Range(D, e) < Range(D, c)

LexLess(a, b) ==
    \/ a[1] < b[1]
    \/ a[1] = b[1] /\ a[2] < b[2]
    \/ a[1] = b[1] /\ a[2] = b[2] /\ a[3] < b[3]

SumInts(S, c) == LET RECURSIVE Go(_)
                     Go(T) == IF T = {} THEN 0
                              ELSE LET d == CHOOSE d \in T : TRUE IN d[c] + Go(T \ {d})
                 IN Go(S)

Average(S) == [c \in 1 .. 3 |-> SumInts(S, c) \div Cardinality(S)]

\* pil_image.quantize(colors=colors): a palette of at most `colors` entries
\* by a median cut of the image's colours: the colours, ordered along their
\* widest channel, are cut into `colors` boxes of equal count and each box
\* gives its average.  An image of at most `colors` colours keeps them.
\* PIL raises ValueError for colors outside 1..256.
MedianCut(im, colors) ==
    LET D == ColorsOf(im)
        n == Cardinality(D)
        ch == WidestChannel(D)
        Before(a, b) == a[ch] < b[ch] \/ (a[ch] = b[ch] /\ LexLess(a, b))
        Rank(d) == Cardinality({e \in D : Before(e, d)})
        Box(k) == {d \in D : (Rank(d) * colors) \div n = k}
    IN IF colors < 1 \/ colors > 256 THEN [ok |-> FALSE, err |-> "ValueError"]
       ELSE [ok |-> TRUE, err |-> "none",
             palette |-> IF n <= colors THEN D
                         ELSE {Average(Box(k)) : k \in 0 .. colors - 1}]

Dist16(p, v) ==
    (16 * p[1] - v[1]) * (16 * p[1] - v[1]) + (16 * p[2] - v[2]) * (16 * p[2] - v[2])
        + (16 * p[3] - v[3]) * (16 * p[3] - v[3])

\* The palette entry nearest to v (v in sixteenths of a level); the least
\* such entry on a tie.
Nearest(palette, v) == CHOOSE p \in palette :
    /\ \A q \in palette : Dist16(p, v) <= Dist16(q, v)
    /\ \A q \in palette : Dist16(q, v) = Dist16(p, v) => (q = p \/ LexLess(p, q))

Clamp16(n) == IF n < 0 THEN 0 ELSE IF n > 16 * 255 THEN 16 * 255 ELSE n

\* Floyd-Steinberg from pixel n on, in raster order: err holds the error
\* carried to each pixel, in sixteenths of a level.
RECURSIVE Diffuse(_, _, _, _, _)
Diffuse(im, palette, n, err, out) ==
    IF n >= im.w * im.h THEN out
    ELSE LET x == n % im.w
             y == n \div im.w
             v == [c \in 1 .. 3 |-> Clamp16(16 * im.px[<<x, y>>][c] + err[<<x, y>>][c])]
             p == Nearest(palette, v)
             e == [c \in 1 .. 3 |-> v[c] - 16 * p[c]]
             share(q) ==
                 IF q = <<x + 1, y>> THEN 7
                 ELSE IF q = <<x - 1, y + 1>> THEN 3
                 ELSE IF q = <<x, y + 1>> THEN 5
                 ELSE IF q = <<x + 1, y + 1>> THEN 1
                 ELSE 0
             err2 == [q \in DOMAIN err |->
                         [c \in 1 .. 3 |-> err[q][c] + (share(q) * e[c]) \div 16]]
         IN Diffuse(im, palette, n + 1, err2, [out EXCEPT ![<<x, y>>] = p])

\* pil_image.quantize(colors=colors, palette=palette, dither=dither_option)
\* followed by convert("RGB"): every pixel becomes an entry of the palette.
Remap(im, palette, dither_option) ==
    IF dither_option = "FLOYDSTEINBERG"
    THEN [im EXCEPT !.px = Diffuse(im, palette, 0,
                                   [q \in DOMAIN im.px |-> <<0, 0, 0>>], im.px)]
    ELSE [im EXCEPT !.px = [q \in DOMAIN im.px |->
                               Nearest(palette, [c \in 1 .. 3 |-> 16 * im.px[q][c]])]]

\* dither_option = FLOYDSTEINBERG if dither == "floyd-steinberg" else NONE
DitherOption(dither) == IF dither = "floyd-steinberg" THEN "FLOYDSTEINBERG" ELSE "NONE"

RECURSIVE QuantizeLoop(_, _, _, _, _)
QuantizeLoop_FullPalette(img, colors, dither_option, b, result) ==
    IF b >= img.shape[1] THEN Ok(result)
    ELSE LET pil_image == FromArray(img, b)
             palette == MedianCut(pil_image, 256)
         IN IF ~palette.ok THEN Raise(palette.err)
            ELSE LET r == SetItem(result, b, Remap(pil_image, palette.palette, dither_option))
                 IN IF r.ok THEN QuantizeLoop(img, colors, dither_option, b + 1, r.value)
                    ELSE r

\* The loop of Quantize.quantize from image b on.
QuantizeLoop(img, colors, dither_option, b, result) ==
    IF b >= img.shape[1] THEN Ok(result)
    ELSE LET pil_image == FromArray(img, b)
             palette == MedianCut(pil_image, colors)
         IN IF ~palette.ok THEN Raise(palette.err)
            ELSE LET r == SetItem(result, b, Remap(pil_image, palette.palette, dither_option))
                 IN IF r.ok THEN QuantizeLoop(img, colors, dither_option, b + 1, r.value)
                    ELSE r

\* Quantize.quantize
quantize(img, colors, dither) ==
    QuantizeLoop(img, colors, DitherOption(dither), 0, ZerosLike(img))

\* The distinct RGB values of image b of a batch
DistinctRGB(t, b) ==
    {<<t.data[<<b, y, x, 0>>], t.data[<<b, y, x, 1>>], t.data[<<b, y, x, 2>>]>> :
        y \in 0 .. t.shape[2] - 1, x \in 0 .. t.shape[3] - 1}

(***************************************************************************)
(* Rotate and its fill-colour parser.  Strings are sequences of            *)
(* one-character strings.                                                  *)
(***************************************************************************)
DigitChars == <<"0", "1", "2", "3", "4", "5", "6", "7", "8", "9">>

HexChars == DigitChars \o <<"a", "b", "c", "d", "e", "f">>

UpperChars == <<"A", "B", "C", "D", "E", "F", "R", "T", "N">>

LowerChars == <<"a", "b", "c", "d", "e", "f", "r", "t", "n">>

IndexOf(seq, ch) == CHOOSE k \in DOMAIN seq : seq[k] = ch

InSeq(seq, ch) == \E k \in DOMAIN seq : seq[k] = ch

\* str.lower on the characters the model draws
LowerChar(ch) == IF InSeq(UpperChars, ch) THEN LowerChars[IndexOf(UpperChars, ch)] ELSE ch

Lower(str) == [k \in DOMAIN str |-> LowerChar(str[k])]

IsDigit(ch) == InSeq(DigitChars, ch)

\* [a-fA-F0-9]
IsHex(ch) == InSeq(HexChars, LowerChar(ch))

HexVal(ch) == IndexOf(HexChars, LowerChar(ch)) - 1

\* int(str) of a string of decimal digits
RECURSIVE DecVal(_)
DecVal(str) ==
    IF str = <<>> THEN 0
    ELSE 10 * DecVal(SubSeq(str, 1, Len(str) - 1)) + (IndexOf(DigitChars, str[Len(str)]) - 1)

\* The entries of ImageColor.colormap the model draws, with their RGB values.
colormap ==
    (<<"r", "e", "d">> :> <<255, 0, 0>>) @@ (<<"t", "a", "n">> :> <<210, 180, 140>>)

\* re.match(r'^#[a-fA-F0-9]{6}$', color_str)
HexMatch(str) == Len(str) = 7 /\ str[1] = "#" /\ \A k \in 2 .. 7 : IsHex(str[k])

\* ImageColor.getrgb of a string that passed the test of parse_palette
getrgb(str) ==
    IF Lower(str) \in DOMAIN colormap THEN colormap[Lower(str)]
    ELSE <<16 * HexVal(str[2]) + HexVal(str[3]), 16 * HexVal(str[4]) + HexVal(str[5]),
           16 * HexVal(str[6]) + HexVal(str[7])>>

\* The pieces of str between its commas
RECURSIVE Split(_)
Split(str) ==
    IF \A k \in DOMAIN str : str[k] # ","
    THEN <<str>>
    ELSE LET k == CHOOSE j \in DOMAIN str : str[j] = "," /\ \A i \in 1 .. j - 1 : str[i] # ","
         IN <<SubSeq(str, 1, k - 1)>> \o Split(SubSeq(str, k + 1, Len(str)))

\* \d{1,3}
Digits13(str) == Len(str) \in 1 .. 3 /\ \A k \in DOMAIN str : IsDigit(str[k])

\* re.match(r'^\(?(\d{1,3}),(\d{1,3}),(\d{1,3})\)?$', color_str): the groups
\* of the match, or <<>> when there is none.  Each parenthesis is optional
\* on its own.
TripletMatch(str) ==
    LET a == IF Len(str) > 0 /\ str[1] = "(" THEN Tail(str) ELSE str
        b == IF Len(a) > 0 /\ a[Len(a)] = ")" THEN SubSeq(a, 1, Len(a) - 1) ELSE a
        parts == Split(b)
    IN IF Len(parts) = 3 /\ \A k \in 1 .. 3 : Digits13(parts[k]) THEN parts ELSE <<>>

\* Rotate.rotate.parse_palette
parse_palette(color_str) ==
    IF HexMatch(color_str) \/ Lower(color_str) \in DOMAIN colormap
    THEN [ok |-> TRUE, err |-> "none", rgb |-> getrgb(color_str)]
    ELSE LET color_rgb == TripletMatch(color_str)
         IN IF color_rgb # <<>> /\ DecVal(color_rgb[1]) <= 255
                /\ DecVal(color_rgb[2]) <= 255 /\ DecVal(color_rgb[3]) <= 255
            THEN [ok |-> TRUE, err |-> "none",
                  rgb |-> <<DecVal(color_rgb[1]), DecVal(color_rgb[2]), DecVal(color_rgb[3])>>]
            ELSE [ok |-> FALSE, err |-> "ValueError", rgb |-> <<>>]

\* fill_color.replace(" ", "")
RECURSIVE RemoveSpaces(_)
RemoveSpaces(str) ==
    IF str = <<>> THEN <<>>
    ELSE (IF Head(str) = " " THEN <<>> ELSE <<Head(str)>>) \o RemoveSpaces(Tail(str))

\* The colour the loop body of Rotate.rotate passes to PIL:
\* fill_color or "#000000", spaces removed, parsed.
FillColor(fill_color) ==
    parse_palette(RemoveSpaces(IF fill_color = <<>>
                               THEN <<"#", "0", "0", "0", "0", "0", "0">>
                               ELSE fill_color))

\* The keys of the resamplers table
Resamplers == {"Nearest Neighbor", "Bilinear", "Bicubic"}

\* pil_image.rotate(angle, resample, expand=False, fillcolor): PIL reduces
\* the angle modulo 360 and turns 0 into a copy, 180 into ROTATE_180, and 90
\* and 270 of a square image into ROTATE_90 and ROTATE_270, whatever the
\* filter.  Other rotations are not drawn by the model.
PilRotate(im, angle) ==
    CASE angle % 360 = 0 -> im
      [] angle % 360 = 180 -> PilTranspose(im, "Rotate 180")
      [] angle % 360 = 90 /\ im.w = im.h -> PilTranspose(im, "Rotate 90")
      [] angle % 360 = 270 /\ im.w = im.h -> PilTranspose(im, "Rotate 270")

RECURSIVE RotateLoop(_, _, _, _, _, _)
RotateLoop(img, angle, resample, fill_color, b, result) ==
    IF b >= img.shape[1] THEN Ok(result)
    ELSE LET pil_image == FromArray(img, b)
             color == FillColor(fill_color)
         IN IF ~color.ok THEN Raise(color.err)
            ELSE IF resample \notin Resamplers THEN Raise("KeyError")
            ELSE LET r == SetItem(result, b, PilRotate(pil_image, angle))
                 IN IF r.ok
                    THEN RotateLoop(img, angle, resample, fill_color, b + 1, r.value)
                    ELSE r

\* Rotate.rotate
rotate(img, angle, resample, fill_color) ==
    RotateLoop(img, angle, resample, fill_color, 0, ZerosLike(img))

(***************************************************************************)
(* Input batches.                                                          *)
(***************************************************************************)
\* Component values by pattern: "levels" are exact 8-bit levels, different
\* at every position; "halves" lie half-way between two levels; "quarters"
\* and "quarters2" are multiples of 1/4; "ones" is the all-white image.
Pix(pat, i) ==
    LET k == (i[1] * 101 + i[2] * 37 + i[3] * 11 + i[4] * 5 + 3) % 255
    IN CASE pat = "levels"   -> Rat(k, 255)
         [] pat = "halves"   -> Rat(2 * k + 1, 510)
         [] pat = "quarters" -> Rat((i[1] + 2 * i[2] + 3 * i[3] + i[4]) % 5, 4)
         [] pat = "quarters2" -> Rat((2 * i[1] + i[2] + i[3] + 2 * i[4] + 1) % 5, 4)
         [] pat = "ones"     -> RInt(1)

Batch(s, pat) == [shape |-> s, data |-> [i \in Idx(s) |-> Pix(pat, i)]]

Shapes(bs, cs) == {<<b, h, w, c>> : b \in bs, h \in 1 .. MaxDim, w \in 1 .. MaxDim, c \in cs}

Batches(bs, cs, pats) == {Batch(s, pat) : s \in Shapes(bs, cs), pat \in pats}

IsExact8(t) == \A i \in DOMAIN t.data : FromUint8(ToUint8(t.data[i])) = t.data[i]

NoCall == [op |-> "none"]

NoRun == [start |-> NoTensor, method |-> "none", len |-> 0, ok |-> TRUE]

(***************************************************************************)
(* One node call per graph evaluation: the node named by call.op is run on *)
(* the batch `image` with the parameters recorded in call, and ret is what *)
(* it gave back.                                                           *)
(***************************************************************************)
Images == Batches(1 .. MaxBatch, {3}, {"quarters", "ones"})

\* Second operands of a blend: image's own shape, and shapes that differ from
\* it in batch size, in height or in channel count.
Image2Shapes(s) ==
    {s, <<1, s[2], s[3], s[4]>>, <<s[1] + 1, s[2], s[3], s[4]>>,
     <<s[1], s[2] + 1, s[3], s[4]>>, <<s[1], s[2], s[3], 1>>, <<s[1], s[2], s[3], 2>>}

Image2s(img) == {Batch(s, "quarters2") : s \in Image2Shapes(img.shape)}

Factors == {Rat(-1, 2), RInt(0), Rat(1, 2), RInt(1), Rat(3, 2)}

Rings == {Rat(-1, 4), RInt(0), Rat(1, 4)}

Radii == -1 .. MaxRadius

Sigmas == {Rat(1, 20), RInt(1), RInt(10), RInt(20)}

Alphas == {Rat(1, 20), Rat(1, 2), RInt(1), RInt(5), RInt(6)}

ColorCounts == {0, 1, 2, 3, 256, 257}

Dithers == {"none", "floyd-steinberg", "FLOYDSTEINBERG", "bayer"}

Methods == TransposeMethods \cup {"Rotate 45"}

Angles == {-90, 0, 90, 180, 270, 360, 450}

Resamples == Resamplers \cup {"Lanczos"}

FewFills ==
    {<<>>, <<"#", "f", "f", "0", "0", "0", "0">>, <<"#", "z", "z", "0", "0", "0", "0">>,
     <<"(", "2", "5", "5", ",", "0", ",", "0">>}

Init ==
    /\ image \in Images
    /\ call = NoCall
    /\ ret = NoRet
    /\ run = NoRun

Blend ==
    \E image2 \in Image2s(image), blend_factor \in Factors,
       mode \in BlendModes \cup {"add"}, ring \in Rings :
        /\ call = NoCall
        /\ (image2.shape[2] = image.shape[2] /\ image2.shape[3] = image.shape[3])
              => ring = RInt(0)
        /\ call' = [op |-> "blend", image2 |-> image2, blend_factor |-> blend_factor,
                    blend_mode |-> mode]
        /\ ret' = blend_images(image, image2, blend_factor, mode, ring)
        /\ UNCHANGED <<image, run>>

Blur ==
    \E blur_radius \in Radii, sigma \in Sigmas :
        /\ call = NoCall
        /\ call' = [op |-> "blur", blur_radius |-> blur_radius, sigma |-> sigma]
        /\ ret' = blur(image, blur_radius, sigma)
        /\ UNCHANGED <<image, run>>

Quantize ==
    \E colors \in ColorCounts, dither \in Dithers :
        /\ call = NoCall
        /\ call' = [op |-> "quantize", colors |-> colors, dither |-> dither]
        /\ ret' = quantize(image, colors, dither)
        /\ UNCHANGED <<image, run>>

\* kernel is the kernel the call built, when it built one.
Sharpen ==
    \E sharpen_radius \in Radii, alpha \in Alphas :
        /\ call = NoCall
        /\ call' = [op |-> "sharpen", sharpen_radius |-> sharpen_radius, alpha |-> alpha,
                    kernel |-> IF sharpen_radius = 0
                               THEN [ok |-> FALSE, err |-> "not built"]
                               ELSE SharpenKernel(sharpen_radius, alpha)]
        /\ ret' = sharpen(image, sharpen_radius, alpha)
        /\ UNCHANGED <<image, run>>

Transpose ==
    \E method \in Methods :
        /\ call = NoCall
        /\ call' = [op |-> "transpose", method |-> method]
        /\ ret' = transpose(image, method)
        /\ UNCHANGED <<image, run>>

\* color is what the loop body parsed, when the loop ran at all.
RotateWith(angles, resamples, fills) ==
    \E angle \in angles, resample \in resamples, fill_color \in fills :
        /\ call = NoCall
        /\ angle % 360 \in {0, 180} \/ image.shape[2] = image.shape[3]
        /\ call' = [op |-> "rotate", angle |-> angle, resample |-> resample,
                    fill_color |-> fill_color,
                    color |-> IF image.shape[1] > 0 THEN FillColor(fill_color)
                              ELSE [ok |-> TRUE, err |-> "not parsed", rgb |-> <<>>]]
        /\ ret' = rotate(image, angle, resample, fill_color)
        /\ UNCHANGED <<image, run>>

Rotate == RotateWith(Angles, Resamples, FewFills)

Next == Blend \/ Blur \/ Quantize \/ Sharpen \/ Transpose \/ Rotate

Spec == Init /\ [][Next]_vars

(***************************************************************************)
(* Rotate calls over many fill colours.                                    *)
(***************************************************************************)
Components ==
    {<<"0">>, <<"2", "5", "5">>, <<"2", "5", "6">>, <<"0", "0", "7">>, <<>>,
     <<" ", "7">>, <<"1", "0", "0", "0">>}

Triplets ==
    {open \o r \o <<",">> \o gg \o <<",", " ">> \o b \o close :
        open \in {<<>>, <<"(">>}, close \in {<<>>, <<")">>},
        r \in Components, gg \in Components, b \in Components}

OtherFills ==
    {<<>>, <<" ">>, <<"#">>,
     <<"#", "f", "f", "0", "0", "0", "0">>, <<"#", "F", "f", "0", "0", "0", "0">>,
     <<"#", "z", "z", "0", "0", "0", "0">>, <<"#", "f", "f", "0", "0", "0">>,
     <<"#", "f", "f", "0", "0", "0", "0", "0">>, <<"f", "f", "0", "0", "0", "0">>,
     <<"#", " ", "0", "0", "8", "0", "f", "f">>,
     <<"r", "e", "d">>, <<"R", "e", "D">>, <<" ", "t", "a", "n">>, <<"t", "e", "d">>,
     <<"2", "5", "5", ",", "0", ",", "0">>, <<"(", "2", "5", "5", ",", " ", "0", " ", ",", "0", ")">>,
     <<"1", ",", "2">>, <<"1", ",", "2", ",", "3", ",", "4">>,
     <<"(", "(", "1", ",", "2", ",", "3", ")", ")">>}

ColorSpecs == Triplets \cup OtherFills

ColorImages == {Batch(<<b, 1, 1, 3>>, "levels") : b \in 1 .. MaxBatch}

InitColor ==
    /\ image \in ColorImages
    /\ call = NoCall
    /\ ret = NoRet
    /\ run = NoRun

RotateColor == RotateWith({0, 90}, {"Bilinear"}, ColorSpecs)

NextColor == RotateColor

SpecColor == InitColor /\ [][NextColor]_vars

(***************************************************************************)
(* A chain of Transpose nodes: each successful call's result is the next   *)
(* call's input.  run records the current run of calls with one method:    *)
(* the batch it started from, its length and whether every call succeeded. *)
(***************************************************************************)
ChainImages == Batches(1 .. MaxBatch, {3}, {"levels", "halves"})

InitChain ==
    /\ image \in ChainImages
    /\ call = NoCall
    /\ ret = NoRet
    /\ run = NoRun

TransposeChain ==
    \E method \in Methods :
        LET r == transpose(image, method)
            same == method = run.method
        IN /\ run.ok
           /\ same => run.len < MaxChain
           /\ call' = [op |-> "transpose", method |-> method]
           /\ ret' = r
           /\ image' = IF r.ok THEN r.value ELSE image
           /\ run' = [start |-> IF same THEN run.start ELSE image,
                      method |-> method,
                      len |-> IF same THEN run.len + 1 ELSE 1,
                      ok |-> r.ok]

NextChain == TransposeChain

SpecChain == InitChain /\ [][NextChain]_vars

(***************************************************************************)
(* The parameter ranges the nodes declare in INPUT_TYPES.                  *)
(***************************************************************************)
MaxBlendFactor == 1
MaxRadiusParam == 31
MinSigma == Rat(1, 10)
MaxSigma == 10
MinAlpha == Rat(1, 10)
MaxAlpha == 5
MinColors == 1
MaxColors == 256
FullTurn == 360

FactorInRange(f) == RLe(RInt(0), f) /\ RLe(f, RInt(MaxBlendFactor))

RadiusInRange(r) == r \in 0 .. MaxRadiusParam

SigmaInRange(v) == RLe(MinSigma, v) /\ RLe(v, RInt(MaxSigma))

AlphaInRange(v) == RLe(MinAlpha, v) /\ RLe(v, RInt(MaxAlpha))

ColorsInRange(k) == k \in MinColors .. MaxColors

AngleInRange(a) == 0 <= a /\ a < FullTurn

\* The numeric parameters of the call are within their declared ranges.
NumbersInRange ==
    CASE call.op = "blend" -> FactorInRange(call.blend_factor)
      [] call.op = "blur" -> RadiusInRange(call.blur_radius) /\ SigmaInRange(call.sigma)
      [] call.op = "sharpen" -> RadiusInRange(call.sharpen_radius) /\ AlphaInRange(call.alpha)
      [] call.op = "quantize" -> ColorsInRange(call.colors)
      [] call.op = "rotate" -> AngleInRange(call.angle)
      [] OTHER -> TRUE

\* The enum-valued parameters of the call are members of their enum.
EnumsInRange ==
    CASE call.op = "blend" -> call.blend_mode \in BlendModes
      [] call.op = "quantize" -> call.dither \in {"none", "floyd-steinberg"}
      [] call.op = "transpose" -> call.method \in TransposeMethods
      [] call.op = "rotate" -> call.resample \in Resamplers
      [] OTHER -> TRUE

Called == call.op # "none"

(***************************************************************************)
(* Properties                                                              *)
(***************************************************************************)
\* The input pixel that the output pixel at row y, column x of a transposed
\* H x W image shows, as <<row, column>>.
PermutedFrom(m, H, W, y, x) ==
    LET src == TransposeSource([w |-> W, h |-> H], m, x, y) IN <<src[2], src[1]>>

\* C1: a Transpose call with any of the seven methods succeeds on a batch of
\* any height and width; its result is W x H for the four methods that swap
\* the axes and H x W for the other three, and each output pixel is the
\* input pixel the method's permutation puts there (compared as 8-bit
\* levels).
C1_TransposeAnyAspect ==
    (call.op = "transpose" /\ call.method \in TransposeMethods) =>
        /\ ret.ok
        /\ ret.value.shape =
              IF SwapsDims(call.method)
              THEN <<image.shape[1], image.shape[3], image.shape[2], image.shape[4]>>
              ELSE image.shape
        /\ \A i \in DOMAIN ret.value.data :
              LET from == PermutedFrom(call.method, image.shape[2], image.shape[3], i[2], i[3])
              IN ToUint8(ret.value.data[i]) = ToUint8(image.data[<<i[1], from[1], from[2], i[4]>>])

\* C2: a Blend call whose operands differ in batch size or channel count
\* fails, also when one of the two sizes is 1; a call whose operands differ
\* at most in height and width returns a batch of image1's shape.
C2_BlendShapeMismatchFails ==
    (call.op = "blend" /\ call.blend_mode \in BlendModes
        /\ FactorInRange(call.blend_factor)) =>
        LET s1 == image.shape
            s2 == call.image2.shape
        IN IF s1[1] # s2[1] \/ s1[4] # s2[4]
           THEN ~ret.ok
           ELSE ret.ok /\ ret.value.shape = s1

\* C3: a call with a string outside the enum of its string parameter (blend
\* mode, quantize dither, transpose method, rotate resample) fails, whatever
\* the size of the batch.
C3_UnknownEnumFails == (Called /\ ~EnumsInRange /\ NumbersInRange) => ~ret.ok

\* The grammar of fill colours claim C4 states, on a string without spaces:
\* '#' and six hex digits, a colour name, or three comma-separated decimal
\* components of at most 255 within both parentheses or neither.
C4_Triplet(str) ==
    LET parts == Split(str)
    IN /\ Len(parts) = 3
       /\ \A k \in 1 .. 3 : Digits13(parts[k]) /\ DecVal(parts[k]) <= 255

C4_Accepts(str) ==
    \/ HexMatch(str)
    \/ Lower(str) \in DOMAIN colormap
    \/ C4_Triplet(str)
    \/ /\ Len(str) >= 2
       /\ str[1] = "("
       /\ str[Len(str)] = ")"
       /\ C4_Triplet(SubSeq(str, 2, Len(str) - 1))

\* C4: the fill colour of a Rotate call parses to an RGB triple exactly when
\* the string, its spaces removed, is of the claimed grammar; an empty
\* string gives (0, 0, 0); any other string makes the call fail.
C4_FillColorGrammar ==
    (call.op = "rotate" /\ image.shape[1] > 0) =>
        LET str == RemoveSpaces(call.fill_color)
        IN /\ call.fill_color = <<>> =>
                  (call.color.ok /\ call.color.rgb = <<0, 0, 0>>)
           /\ str # <<>> => (call.color.ok <=> C4_Accepts(str))
           /\ ~call.color.ok => ~ret.ok

\* The operands of a Blend call have one shape.
SameShapes == call.op = "blend" => call.image2.shape = image.shape

\* C5: a call with a numeric parameter outside its declared range fails
\* (its other parameters being valid).
C5_OutOfRangeFails == (Called /\ ~NumbersInRange /\ EnumsInRange /\ SameShapes) => ~ret.ok

\* C6: for operands of one shape with components in [0, 1], a Blend call
\* with factor 0 returns image1 in each of the five modes, and a call with
\* mode normal and factor 1 returns image2.
C6_BlendIdentities ==
    (call.op = "blend" /\ call.image2.shape = image.shape
        /\ AllInUnit(image) /\ AllInUnit(call.image2)) =>
        /\ (call.blend_factor = RInt(0) /\ call.blend_mode \in BlendModes)
              => ret = Ok(image)
        /\ (call.blend_factor = RInt(1) /\ call.blend_mode = "normal")
              => ret = Ok(call.image2)

C6_Witness ==
    /\ call.op = "blend"
    /\ call.image2.shape = image.shape
    /\ call.image2 # image
    /\ call.blend_factor = RInt(0)
    /\ call.blend_mode = "soft_light"
    /\ \E i \in DOMAIN image.data :
          BlendFormula("soft_light", image.data[i], call.image2.data[i]) # image.data[i]
    /\ ret = Ok(image)

C8_Cells ==
    LET r == call.sharpen_radius
        side == 2 * r + 1
    IN /\ call.kernel.ok
       /\ call.kernel.size = side
       /\ DOMAIN call.kernel.w = Cells(side)
       /\ \A c \in Cells(side) :
             call.kernel.w[c] = IF c = <<r, r>>
                                THEN RMul(call.alpha, RInt(side * side))
                                ELSE RSub(RInt(0), call.alpha)

C8_Case ==
    /\ call.op = "sharpen"
    /\ call.sharpen_radius \in 1 .. MaxRadiusParam
    /\ AlphaInRange(call.alpha)

\* C8 as stated: the cells are as above and they sum to 1.
C8_KernelSumsToOne == C8_Case => (C8_Cells /\ KernelSum(call.kernel) = RInt(1))

\* C8 as amended: the cells are as above and they sum to alpha.
C8_KernelSumsToAlpha == C8_Case => (C8_Cells /\ KernelSum(call.kernel) = call.alpha)

C8_Witness ==
    /\ C8_Case
    /\ call.sharpen_radius = 2
    /\ call.alpha = RInt(5)
    /\ KernelSum(call.kernel) = RInt(5)

\* C9: each image of the batch a Quantize call returns for colors = K in
\* [1, 256] shows at most K distinct RGB values, with either dither setting.
C9_AtMostKColors ==
    (call.op = "quantize" /\ ret.ok /\ ColorsInRange(call.colors)
        /\ call.dither \in {"none", "floyd-steinberg"}) =>
        \A b \in 0 .. ret.value.shape[1] - 1 :
            Cardinality(DistinctRGB(ret.value, b)) <= call.colors

\* A dithered call with K = 2 on a batch of two images of more than two
\* colours each, whose two results use different palettes.
C9_Witness ==
    /\ call.op = "quantize"
    /\ call.colors = 2
    /\ call.dither = "floyd-steinberg"
    /\ ret.ok
    /\ image.shape[1] = 2
    /\ \A b \in 0 .. 1 : Cardinality(DistinctRGB(image, b)) > 2
    /\ \A b \in 0 .. 1 : Cardinality(DistinctRGB(ret.value, b)) = 2
    /\ DistinctRGB(ret.value, 0) # DistinctRGB(ret.value, 1)

\* The number of calls after which a run of one method is the identity.
Period(m) ==
    CASE m = "Flip horizontal" -> 2
      [] m = "Rotate 180" -> 2
      [] m = "Rotate 90" -> 4
      [] OTHER -> 0

\* C10: on a batch of exact 8-bit levels of any height and width, every call
\* of a run of Flip horizontal, Rotate 180 or Rotate 90 succeeds, and the
\* run gives the batch it started from back after 2, 2 and 4 calls.
C10_RoundTrips ==
    (IsExact8(run.start) /\ Period(run.method) > 0 /\ run.len <= Period(run.method)) =>
        /\ run.ok
        /\ run.len = Period(run.method) => image = run.start

====
